---- MODULE Spec2Model ----
(***************************************************************************)
(* GoldHEN plugin auto-reactivation fix: goldhen_plugins_fix.mjs,           *)
(* auto_goldhen_fix.mjs and goldhen_config_manager.mjs.                     *)
(*                                                                         *)
(* Text is a sequence of symbols.  A symbol is either one character of the  *)
(* source alphabet ("=", "0", "1", "#", " ", NL) or a fixed multi-character *)
(* string that the code only ever handles as a whole (a setting name, a     *)
(* plugin path stem, the ".prx" suffix).  String.includes is contiguous     *)
(* sub-sequence, split and join work on the NL symbol.                      *)
(***************************************************************************)
EXTENDS Integers, Sequences, FiniteSets, TLC

VARIABLES
    ls,        \* localStorage: key -> value (NULL when absent)
    ss,        \* sessionStorage: key -> value (NULL when absent)
    files,     \* RawStore: path -> content (NoFile when absent)
    handles,   \* RawStore: descriptor table, fd = index + 2
    loaded,    \* RawStore: names of the units currently loaded
    pc,        \* position of the single thread of control
    loc,       \* local variables of the running functions
    trace,     \* RawStore calls and delays issued by the current entry call
    hist,      \* history: snapshot at entry, gate bookkeeping
    ret,       \* value returned by the last completed entry call
    budget,    \* remaining model budgets (faults, entry calls, outside writes)
    ud         \* inputs and outputs of the pure functions exercised alone

vars == <<ls, ss, files, handles, loaded, pc, loc, trace, hist, ret, budget, ud>>

---------------------------------------------------------------------------
(* Bounds of the model *)

MaxFaults == 1
MaxFaultCalls == 1
MaxCalls == 2
MaxEnvWrites == 1
MaxLines == 2
MaxManifestLines == 3
MaxConfigLines == 4
MaxAdviceLines == 3

---------------------------------------------------------------------------
(* Text primitives *)

NL == "\n"
NUL == "\\0"

Min(S) == CHOOSE x \in S : \A y \in S : x <= y

RECURSIVE Split(_)
Split(t) ==
    IF \A i \in 1..Len(t) : t[i] # NL THEN <<t>>
    ELSE LET i == Min({j \in 1..Len(t) : t[j] = NL})
         IN  <<SubSeq(t, 1, i - 1)>> \o Split(SubSeq(t, i + 1, Len(t)))

RECURSIVE Join(_)
Join(lines) ==
    IF Len(lines) = 0 THEN <<>>
    ELSE IF Len(lines) = 1 THEN lines[1]
    ELSE lines[1] \o <<NL>> \o Join(Tail(lines))

Includes(s, p) ==
    \E i \in 0..(Len(s) - Len(p)) : SubSeq(s, i + 1, i + Len(p)) = p

StartsWith(s, p) == Len(s) >= Len(p) /\ SubSeq(s, 1, Len(p)) = p

SettingLine(setting, value) == setting \o <<"=">> \o value

\* whether the search of the update loop stops at this line
LineMatches(line, setting) == Includes(line, setting)

updateConfigSetting(config_text, setting, value) ==
    LET lines == Split(config_text)
        hits == {i \in 1..Len(lines) : LineMatches(lines[i], setting)}
    IN  IF hits # {}
        THEN Join([lines EXCEPT ![Min(hits)] = SettingLine(setting, value)])
        ELSE Join(Append(lines, SettingLine(setting, value)))

---------------------------------------------------------------------------
(* Names used by the code *)

FIX == "goldhen_plugins_fixed"
EXPLOIT == "ExploitLoaded"
MSG == "goldhen_fix_message"
NULL == "null"

GOLDHEN_CONFIG_PATH == "/data/GoldHEN/config.ini"
PLUGINS_INI_PATH == "/data/GoldHEN/plugins.ini"

LOADER == <<"enable_plugins_loader">>
PATCH == <<"enable_game_patch_plugin">>

\* open(2) flag words, with the meaning the code gives them
O_RDWR_CREAT == "0x602"
O_WRONLY_CREAT == "0x601"
O_RDONLY == "0"

ConfigBufferSize == 16384
PluginsBufferSize == 4096

\* Variant: the settings are enabled first and disabled afterwards.
fix_sequenceEnableFirst ==
    << [delay |-> 0,   setting |-> LOADER, value |-> <<"1">>],
       [delay |-> 0,   setting |-> PATCH,  value |-> <<"1">>],
       [delay |-> 100, setting |-> <<>>,   value |-> <<>>],
       [delay |-> 0,   setting |-> LOADER, value |-> <<"0">>],
       [delay |-> 0,   setting |-> PATCH,  value |-> <<"0">>] >>

fix_sequence ==
    << [delay |-> 0,   setting |-> LOADER, value |-> <<"0">>],
       [delay |-> 0,   setting |-> PATCH,  value |-> <<"0">>],
       [delay |-> 100, setting |-> <<>>,   value |-> <<>>],
       [delay |-> 0,   setting |-> LOADER, value |-> <<"1">>],
       [delay |-> 0,   setting |-> PATCH,  value |-> <<"1">>] >>

PRX == ".prx"
PLUGIN_DIR == "/data/GoldHEN/plugins/"

plugins_to_unload ==
    << <<"game_patch", PRX>>, <<"cheat_manager", PRX>>, <<"browser_patch", PRX>> >>

OPTIMAL_GOLDHEN_CONFIG ==
    << <<"enable_plugins_loader", "1">>,
       <<"enable_game_patch_plugin", "1">>,
       <<"enable_homebrew_blocker", "0">>,
       <<"enable_rest_mode_patch", "1">>,
       <<"enable_app_browser_patch", "1">>,
       <<"enable_ftp_server", "1">>,
       <<"ftp_port", "2121">>,
       <<"enable_network_dump", "0">>,
       <<"enable_bin_loader", "1">>,
       <<"bin_loader_port", "9020">>,
       <<"enable_game_compatibility_patch", "1">>,
       <<"enable_legacy_game_support", "1">>,
       <<"enable_cpu_temp_patch", "1">>,
       <<"enable_fan_control", "0">>,
       <<"enable_debug_log", "0">>,
       <<"enable_crash_dumps", "1">> >>

DEFAULT_PLUGINS_CONFIG ==
    << "[", "default", "]", NL,
       PLUGIN_DIR, "game_patch", PRX, NL,
       PLUGIN_DIR, "cheat_manager", PRX, NL,
       NL,
       "[", "CUSA00000", "]", NL,
       "#", " ", "Example game-specific plugin configuration", NL,
       "#", " ", PLUGIN_DIR, "special_patch", PRX, NL >>

RECURSIVE OptimalLines(_)
OptimalLines(i) ==
    IF i > Len(OPTIMAL_GOLDHEN_CONFIG) THEN <<>>
    ELSE <<OPTIMAL_GOLDHEN_CONFIG[i][1], "=", OPTIMAL_GOLDHEN_CONFIG[i][2], NL>>
         \o OptimalLines(i + 1)

createOptimalConfig ==
    <<"[Settings]", NL>> \o OptimalLines(1)
    \o <<NL, "[Advanced]", NL,
         "#", " ", "Auto-generated optimal configuration for PSFree + GoldHEN", NL,
         "#", " ", "This configuration optimizes plugin loading for better game compatibility", NL,
         "#", " ", "Generated on: ", "<ISO date>", NL>>

---------------------------------------------------------------------------
(* ConfigAdvisor: validateGoldHENConfig *)

MathMax(a, b) == IF a >= b THEN a ELSE b

\* Variant: ten points are taken off for each issue.
ScoreTenEach(n) == MathMax(0, 100 - (n * 10))

\* the score of a report with n issues
Score(n) == MathMax(0, 100 - (n * 20))

validateGoldHENConfig(config_text) ==
    LET issues ==
            (IF ~Includes(config_text, <<"enable_plugins_loader", "=", "1">>)
             THEN <<"Plugins loader disabled - games may not work properly">>
             ELSE <<>>)
            \o (IF ~Includes(config_text, <<"enable_game_patch_plugin", "=", "1">>)
                THEN <<"Game patch plugin disabled - compatibility issues expected">>
                ELSE <<>>)
            \o (IF Includes(config_text, <<"enable_homebrew_blocker", "=", "1">>)
                THEN <<"Homebrew blocker enabled - may cause conflicts">>
                ELSE <<>>)
            \o (IF ~Includes(config_text, <<"enable_ftp_server", "=", "1">>)
                THEN <<"FTP server disabled - remote management unavailable">>
                ELSE <<>>)
    IN  [isValid |-> Len(issues) = 0,
         issues  |-> issues,
         score   |-> Score(Len(issues))]

---------------------------------------------------------------------------
(* ConfigAdvisor: getOptimizationRecommendations, applyRecommendations *)

REST_MODE == "enable_rest_mode_patch"
APP_BROWSER == "enable_app_browser_patch"
DEBUG_LOG == "enable_debug_log"

Recommendation(setting, value, reason) ==
    [setting |-> setting, value |-> value, reason |-> reason]

\* Variant: the debug log is recommended off unless the text shows it off.
DebugLogRecommendedUnlessOff(config_text) ==
    ~Includes(config_text, <<DEBUG_LOG, "=", "0">>)

\* the test that guards the third recommendation
DebugLogRecommended(config_text) ==
    Includes(config_text, <<DEBUG_LOG, "=", "1">>)

getOptimizationRecommendations(config_text) ==
    (IF ~Includes(config_text, <<REST_MODE, "=", "1">>)
     THEN <<Recommendation(REST_MODE, "1", "Improves system stability in rest mode")>>
     ELSE <<>>)
    \o (IF ~Includes(config_text, <<APP_BROWSER, "=", "1">>)
        THEN <<Recommendation(APP_BROWSER, "1", "Better browser compatibility for PSFree")>>
        ELSE <<>>)
    \o (IF DebugLogRecommended(config_text)
        THEN <<Recommendation(DEBUG_LOG, "0", "Debug logging can slow down performance")>>
        ELSE <<>>)

\* the symbols the dot of a regular expression does not match
LineTerminators == {NL, "\r"}

\* where the pattern `setting=.*` matches in text
MatchStarts(text, setting) ==
    {i \in 1..(Len(text) - 1) : text[i] = setting /\ text[i + 1] = "="}

\* the last position of the match begun at i: `.*` runs to the end of the line
MatchEnd(text, i) ==
    Min({j \in (i + 1)..Len(text) : j = Len(text) \/ text[j + 1] \in LineTerminators})

\* text.replace(/setting=.*/g, new_setting)
RECURSIVE ReplaceAll(_, _, _)
ReplaceAll(text, setting, new_setting) ==
    IF MatchStarts(text, setting) = {} THEN text
    ELSE LET i == Min(MatchStarts(text, setting))
             e == MatchEnd(text, i)
         IN  SubSeq(text, 1, i - 1) \o new_setting
             \o ReplaceAll(SubSeq(text, e + 1, Len(text)), setting, new_setting)

\* text.replace(pattern, replacement) with a string pattern: the first
\* occurrence only
ReplaceFirst(text, pattern, replacement) ==
    IF ~Includes(text, pattern) THEN text
    ELSE LET i == Min({j \in 0..(Len(text) - Len(pattern)) :
                          SubSeq(text, j + 1, j + Len(pattern)) = pattern})
         IN  SubSeq(text, 1, i) \o replacement
             \o SubSeq(text, i + Len(pattern) + 1, Len(text))

\* one iteration of the loop of applyRecommendations
ApplyRecommendation(updated_config, rec) ==
    LET new_setting == <<rec.setting, "=", rec.value>>
    IN  IF MatchStarts(updated_config, rec.setting) # {}
        THEN ReplaceAll(updated_config, rec.setting, new_setting)
        ELSE IF Includes(updated_config, <<"[Settings]">>)
        THEN ReplaceFirst(updated_config, <<"[Settings]">>,
                          <<"[Settings]", NL>> \o new_setting)
        ELSE <<"[Settings]", NL>> \o new_setting \o <<NL, NL>> \o updated_config

RECURSIVE applyRecommendations(_, _)
applyRecommendations(config_text, recommendations) ==
    IF recommendations = <<>> THEN config_text
    ELSE applyRecommendations(ApplyRecommendation(config_text, Head(recommendations)),
                              Tail(recommendations))

---------------------------------------------------------------------------
(* Manifest parsing *)

\* the white space String.prototype.trim removes (a line holds no line feed)
WhiteSpace == {" ", "\t", "\r"}

RECURSIVE TrimLeft(_)
TrimLeft(s) == IF Len(s) > 0 /\ s[1] \in WhiteSpace THEN TrimLeft(Tail(s)) ELSE s

RECURSIVE TrimRight(_)
TrimRight(s) ==
    IF Len(s) > 0 /\ s[Len(s)] \in WhiteSpace
    THEN TrimRight(SubSeq(s, 1, Len(s) - 1))
    ELSE s

Trim(s) == TrimRight(TrimLeft(s))

\* Variant: lines that start with '#' are not left out.
IsPluginLineKeepsComments(trimmed) ==
    /\ trimmed # <<>>
    /\ ~StartsWith(trimmed, <<"[">>)
    /\ Includes(trimmed, <<PRX>>)

IsPluginLine(trimmed) ==
    /\ trimmed # <<>>
    /\ ~StartsWith(trimmed, <<"[">>)
    /\ ~StartsWith(trimmed, <<"#">>)
    /\ Includes(trimmed, <<PRX>>)

RECURSIVE PluginPathsOf(_)
PluginPathsOf(lines) ==
    IF lines = <<>> THEN <<>>
    ELSE (IF IsPluginLine(Trim(Head(lines))) THEN <<Trim(Head(lines))>> ELSE <<>>)
         \o PluginPathsOf(Tail(lines))

parsePluginsList(plugins_text) == PluginPathsOf(Split(plugins_text))

---------------------------------------------------------------------------
(* FixGate *)

\* Variant: only the session store is consulted.
shouldApplySessionOnly(l, s) == s[FIX] # "true"

\* Variant: only the durable store is consulted.
shouldApplyDurableOnly(l, s) == l[FIX] # "true"

\* Variant: the stores are consulted in the other order.
shouldApplySessionFirst(l, s) ==
    IF s[FIX] = "true" THEN FALSE
    ELSE IF l[FIX] = "true" THEN FALSE
    ELSE TRUE

shouldApplyPluginsFix(l, s) ==
    IF l[FIX] = "true" THEN FALSE
    ELSE IF s[FIX] = "true" THEN FALSE
    ELSE TRUE

\* Variant: the flag is written to the session store only.
markSessionOnly(l, s) == <<l, [s EXCEPT ![FIX] = "true"]>>

\* the pair <<localStorage, sessionStorage>> after markPluginsFixApplied()
markPluginsFixApplied(l, s) ==
    <<[l EXCEPT ![FIX] = "true"], [s EXCEPT ![FIX] = "true"]>>

\* Variant: the flag is removed from the session store only.
resetSessionOnly(l, s) == <<l, [s EXCEPT ![FIX] = NULL]>>

\* the pair <<localStorage, sessionStorage>> after resetPluginsFixFlag()
resetPluginsFixFlag(l, s) ==
    <<[l EXCEPT ![FIX] = NULL], [s EXCEPT ![FIX] = NULL]>>

---------------------------------------------------------------------------
(* Verifier *)

RECURSIVE FilterFailed(_)
FilterFailed(checks) ==
    IF checks = <<>> THEN <<>>
    ELSE (IF Head(checks).success THEN <<>> ELSE <<Head(checks)>>)
         \o FilterFailed(Tail(checks))

\* Variant: the runtime-loaded signal is the only check.
verifyLoadedOnly(l, s) ==
    LET checks ==
            << [name |-> "GoldHEN loaded", success |-> (l[EXPLOIT] = "yes")] >>
    IN  [success |-> \A i \in 1..Len(checks) : checks[i].success,
         checks  |-> checks,
         issues  |-> FilterFailed(checks)]

\* Variant: the runtime-loaded signal is not among the checks.
verifyFlagsOnly(l, s) ==
    LET checks ==
            << [name |-> "LocalStorage flag",   success |-> (l[FIX] = "true")],
               [name |-> "SessionStorage flag", success |-> (s[FIX] = "true")] >>
    IN  [success |-> \A i \in 1..Len(checks) : checks[i].success,
         checks  |-> checks,
         issues  |-> FilterFailed(checks)]

verifyFixApplication(l, s) ==
    LET checks ==
            << [name |-> "LocalStorage flag",   success |-> (l[FIX] = "true")],
               [name |-> "SessionStorage flag", success |-> (s[FIX] = "true")],
               [name |-> "GoldHEN loaded",      success |-> (l[EXPLOIT] = "yes")] >>
    IN  [success |-> \A i \in 1..Len(checks) : checks[i].success,
         checks  |-> checks,
         issues  |-> FilterFailed(checks)]

---------------------------------------------------------------------------
(* RawStore: the capability behind chain.sysi *)

Keys == {FIX, EXPLOIT, MSG}
Paths == {GOLDHEN_CONFIG_PATH, PLUGINS_INI_PATH}

NoFile == [exists |-> FALSE, data |-> <<>>]
File(text) == [exists |-> TRUE, data |-> text]

HasCreat(flags) == flags \in {O_RDWR_CREAT, O_WRONLY_CREAT}

\* an open can succeed when the file exists or the flag word creates it
CanOpen(f, path, flags) == f[path].exists \/ HasCreat(flags)

FilesAfterOpen(f, path, flags) ==
    IF f[path].exists THEN f ELSE [f EXCEPT ![path] = File(<<>>)]

NewHandle(path, flags) ==
    [path |-> path, flags |-> flags, pos |-> 0, open |-> TRUE, closes |-> 0]

\* bytes a read of at most size delivers from position pos
ReadBytes(data, pos, size) ==
    LET n == IF Len(data) - pos < size THEN Len(data) - pos ELSE size
    IN  IF n <= 0 THEN <<>> ELSE SubSeq(data, pos + 1, pos + n)

\* content after writing bytes at position pos (a hole reads as NUL)
WriteAt(data, pos, bytes) ==
    LET n == IF Len(data) > pos + Len(bytes) THEN Len(data) ELSE pos + Len(bytes)
    IN  [i \in 1..n |->
            IF i > pos /\ i <= pos + Len(bytes) THEN bytes[i - pos]
            ELSE IF i <= Len(data) THEN data[i]
            ELSE NUL]

\* every close call releases the descriptor, whatever it reports
Closed(h, fd) == [h EXCEPT ![fd].open = FALSE, ![fd].closes = @ + 1]

\* the name under which a unit loaded from path is listed
UnitOf(path) == IF Len(path) > 0 /\ path[1] = PLUGIN_DIR THEN Tail(path) ELSE path

Outcomes == IF budget.faults > 0 THEN {"ok", "fail", "throw"} ELSE {"ok"}

Spend(o) ==
    IF o = "ok" THEN budget
    ELSE [budget EXCEPT !.faults = @ - 1, !.spent = @ + 1]

\* a step of the run that is not a RawStore call: a setting step begun, a delay
Ev(op, arg, ms) == [op |-> op, arg |-> arg, ms |-> ms, res |-> "ok"]

\* a RawStore call with what its caller saw: a usable value ("ok"), the
\* sentinel ("fail") or a raised error ("throw")
Call(op, arg, res) == [op |-> op, arg |-> arg, ms |-> 0, res |-> res]

---------------------------------------------------------------------------
(* State *)

NoLoc ==
    [opIdx |-> 0, fd |-> 0, bytes |-> <<>>, bytes_read |-> 0, uIdx |-> 0,
     handle |-> <<>>, paths |-> <<>>, lIdx |-> 0, modRet |-> FALSE,
     fixResult |-> FALSE]

NoRet ==
    [fn |-> "none", value |-> FALSE, success |-> FALSE, skipped |-> FALSE,
     issues |-> <<>>, marked |-> FALSE, error |-> FALSE]

NoUd ==
    [d |-> <<>>, k |-> <<>>, v1 |-> <<>>, v2 |-> <<>>, done |-> FALSE,
     once |-> <<>>, twice |-> <<>>, direct |-> <<>>, paths |-> <<>>,
     report |-> [isValid |-> FALSE, issues |-> <<>>, score |-> 0],
     recs |-> <<>>, applied |-> <<>>, again |-> <<>>, same |-> <<>>,
     verify |-> [success |-> FALSE, checks |-> <<>>, issues |-> <<>>]]

Snapshot(l, s) ==
    [ls |-> l, ss |-> s, files |-> files, loaded |-> loaded, nh |-> Len(handles)]

FlagValues == {NULL, "true", "false"}

---------------------------------------------------------------------------
(* Raised errors: the try/catch blocks around the RawStore calls *)

\* Variant: no function catches anything.
HandlersNone == {}

\* Variant: modifyGoldHENSetting has no try/catch.
HandlersWithoutModify ==
    {"fixGoldHENPlugins", "forcePluginsReload", "unloadPlugins.for", "loadPlugins",
     "loadPlugins.for", "optimizeGoldHENConfig", "autoFixGoldHEN",
     "debugGoldHENIssues"}

\* Variant: the loop of unloadPlugins has no try/catch.
HandlersWithoutUnloadLoop ==
    {"fixGoldHENPlugins", "modifyGoldHENSetting", "forcePluginsReload", "loadPlugins",
     "loadPlugins.for", "optimizeGoldHENConfig", "autoFixGoldHEN",
     "debugGoldHENIssues"}

\* Variant: the loop of loadPlugins has no try/catch.
HandlersWithoutLoadLoop ==
    {"fixGoldHENPlugins", "modifyGoldHENSetting", "forcePluginsReload",
     "unloadPlugins.for", "loadPlugins", "optimizeGoldHENConfig", "autoFixGoldHEN",
     "debugGoldHENIssues"}

\* the functions (and loop bodies) whose statements sit in a try/catch
Handlers ==
    {"fixGoldHENPlugins", "modifyGoldHENSetting", "forcePluginsReload",
     "unloadPlugins.for", "loadPlugins", "loadPlugins.for", "optimizeGoldHENConfig",
     "autoFixGoldHEN", "debugGoldHENIssues"}

\* the call stacks of the RawStore calls, innermost frame first
InAutoFix == <<"autoFixGoldHEN">>
InReactivate == <<"reactivatePlugins", "fixGoldHENPlugins">> \o InAutoFix
InModify == <<"modifyGoldHENSetting">> \o InReactivate
InReload == <<"forcePluginsReload">> \o InReactivate
InUnloadLoop == <<"unloadPlugins.for", "unloadPlugins">> \o InReload
InLoad == <<"loadPlugins">> \o InReload
InLoadLoop == <<"loadPlugins.for">> \o InLoad
InOptimize == <<"optimizeGoldHENConfig">> \o InAutoFix
InDebug == <<"debugGoldHENIssues">>

\* the innermost frame of the stack that catches, "none" when none does
CatchingFrame(stack) ==
    LET hits == {i \in 1..Len(stack) : stack[i] \in Handlers}
    IN  IF hits = {} THEN "none" ELSE stack[Min(hits)]

\* where control is, and with what, once the catch block of frame f has run
AfterCatch(f) ==
    CASE f = "modifyGoldHENSetting" ->
             [pc |-> "R_sleep50", loc |-> [loc EXCEPT !.modRet = FALSE], ret |-> ret]
      [] f = "unloadPlugins.for" ->
             IF loc.uIdx >= Len(plugins_to_unload)
             THEN [pc |-> "F_sleep1", loc |-> loc, ret |-> ret]
             ELSE [pc |-> "U_find", loc |-> [loc EXCEPT !.uIdx = @ + 1], ret |-> ret]
      [] f = "loadPlugins.for" ->
             IF loc.lIdx >= Len(loc.paths)
             THEN [pc |-> "F_sleep2", loc |-> loc, ret |-> ret]
             ELSE [pc |-> "L_load", loc |-> [loc EXCEPT !.lIdx = @ + 1], ret |-> ret]
      [] f = "loadPlugins" ->
             [pc |-> "F_sleep2", loc |-> loc, ret |-> ret]
      [] f = "forcePluginsReload" ->
             [pc |-> "O_open", loc |-> [loc EXCEPT !.fixResult = TRUE], ret |-> ret]
      [] f = "fixGoldHENPlugins" ->
             [pc |-> "O_open", loc |-> [loc EXCEPT !.fixResult = FALSE], ret |-> ret]
      [] f = "optimizeGoldHENConfig" ->
             [pc |-> "A_verify", loc |-> loc, ret |-> ret]
      [] f = "autoFixGoldHEN" ->
             [pc |-> "idle", loc |-> loc,
              ret |-> [ret EXCEPT !.success = FALSE, !.error = TRUE]]
      [] f = "debugGoldHENIssues" ->
             [pc |-> "idle", loc |-> loc, ret |-> ret]
      [] OTHER ->
             [pc |-> "raised", loc |-> loc, ret |-> [ret EXCEPT !.error = TRUE]]

\* a RawStore call made with this stack raises
Raise(stack) ==
    LET after == AfterCatch(CatchingFrame(stack))
    IN  /\ pc' = after.pc
        /\ loc' = after.loc
        /\ ret' = after.ret

\* the call returns and the function goes on at p with locals l
Continue(p, l) ==
    /\ pc' = p
    /\ loc' = l
    /\ ret' = ret

ConfigWithComment ==
    File(<<"#", " ", "enable_plugins_loader", NL,
           "enable_plugins_loader", "=", "0", NL,
           "enable_game_patch_plugin", "=", "0">>)

ConfigWithSettings ==
    File(<<"[Settings]", NL,
           "enable_plugins_loader", "=", "1", NL,
           "enable_game_patch_plugin", "=", "1", NL>>)

\* a canonical document to which a section was appended afterwards
ConfigWithExtraSection ==
    File(createOptimalConfig \o <<NL, "[Custom]", NL, "ftp_port", "=", "2121", NL>>)

\* the console's files before the fix runs: <<config.ini, plugins.ini>>
InitFiles ==
    { <<NoFile, NoFile>>,
      <<ConfigWithComment, File(DEFAULT_PLUGINS_CONFIG)>>,
      <<ConfigWithSettings, File(DEFAULT_PLUGINS_CONFIG)>>,
      <<ConfigWithSettings, NoFile>>,
      <<ConfigWithSettings, File(<<>>)>>,
      <<ConfigWithExtraSection, File(DEFAULT_PLUGINS_CONFIG)>> }

\* the file systems the entry calls start from when RawStore may fail
InitFilesFaults ==
    { <<NoFile, NoFile>>,
      <<ConfigWithSettings, File(DEFAULT_PLUGINS_CONFIG)>>,
      <<ConfigWithSettings, File(<<>>)>> }

InitLoaded == {<<"game_patch", PRX>>, <<"cheat_manager", PRX>>}

Init ==
    /\ ls \in {[k \in Keys |-> IF k = FIX THEN a ELSE IF k = EXPLOIT THEN b ELSE NULL] :
                  a \in FlagValues, b \in {NULL, "yes"}}
    /\ ss \in {[k \in Keys |-> IF k = FIX THEN a ELSE NULL] : a \in FlagValues}
    /\ files \in {[p \in Paths |-> IF p = GOLDHEN_CONFIG_PATH THEN f[1] ELSE f[2]] :
                  f \in InitFiles}
    /\ handles = <<>>
    /\ loaded = InitLoaded
    /\ pc = "idle"
    /\ loc = NoLoc
    /\ trace = <<>>
    /\ hist = [snap |-> Snapshot(ls, ss), applied |-> FALSE, marks |-> 0,
               verified |-> FALSE, outside |-> FALSE, prior |-> <<ls, ss>>,
                atSet |-> [file |-> NoFile, nh |-> 0]]
    /\ ret = NoRet
    /\ budget = [faults |-> 0, spent |-> 0, calls |-> MaxCalls, env |-> MaxEnvWrites]
    /\ ud = NoUd

\* entry calls on a console whose RawStore may fail
InitFaults ==
    /\ ls = [k \in Keys |-> NULL]
    /\ ss = [k \in Keys |-> NULL]
    /\ files \in {[p \in Paths |-> IF p = GOLDHEN_CONFIG_PATH THEN f[1] ELSE f[2]] :
                  f \in InitFilesFaults}
    /\ handles = <<>>
    /\ loaded = InitLoaded
    /\ pc = "idle"
    /\ loc = NoLoc
    /\ trace = <<>>
    /\ hist = [snap |-> Snapshot(ls, ss), applied |-> FALSE, marks |-> 0,
               verified |-> FALSE, outside |-> FALSE, prior |-> <<ls, ss>>,
                atSet |-> [file |-> NoFile, nh |-> 0]]
    /\ ret = NoRet
    /\ budget = [faults |-> MaxFaults, spent |-> 0, calls |-> MaxFaultCalls, env |-> 0]
    /\ ud = NoUd

---------------------------------------------------------------------------
(* Entry points *)

\* autoFixGoldHEN up to its first suspension, entered with stores l, s
Enter(fn, l, s, applied) ==
    /\ ls' = l
    /\ ss' = s
    /\ trace' = <<>>
    /\ loc' = NoLoc
    /\ hist' = [snap |-> Snapshot(l, s), applied |-> applied, marks |-> 0,
                verified |-> FALSE, outside |-> FALSE, prior |-> <<ls, ss>>,
                atSet |-> [file |-> NoFile, nh |-> 0]]
    /\ budget' = [budget EXCEPT !.calls = @ - 1]
    /\ IF ~shouldApplyPluginsFix(l, s)
       THEN /\ ret' = [NoRet EXCEPT !.fn = fn, !.success = TRUE, !.skipped = TRUE]
            /\ pc' = "idle"
       ELSE /\ ret' = [NoRet EXCEPT !.fn = fn]
            /\ pc' = "A_sleep"
    /\ UNCHANGED <<files, handles, loaded, ud>>

CallAutoFix ==
    /\ pc = "idle"
    /\ budget.calls > 0
    /\ Enter("auto", ls, ss, hist.applied)

CallForceReapply ==
    /\ pc = "idle"
    /\ budget.calls > 0
    /\ LET r == resetPluginsFixFlag(ls, ss)
       IN  Enter("force", [r[1] EXCEPT ![EXPLOIT] = NULL],
                 [r[2] EXCEPT ![EXPLOIT] = NULL], FALSE)

\* shouldApplyPluginsFix() called by the page
CallShouldApply ==
    /\ pc = "idle"
    /\ ret' = [NoRet EXCEPT !.fn = "should", !.value = shouldApplyPluginsFix(ls, ss)]
    /\ UNCHANGED <<ls, ss, files, handles, loaded, pc, loc, trace, hist, budget, ud>>

\* markPluginsFixApplied() called by the page, also while a run is suspended
CallMark ==
    /\ pc \in {"idle", "A_sleep"}
    /\ ls' = markPluginsFixApplied(ls, ss)[1]
    /\ ss' = markPluginsFixApplied(ls, ss)[2]
    /\ hist' = [hist EXCEPT !.applied = TRUE, !.outside = TRUE]
    /\ ret' = IF pc = "idle" THEN [NoRet EXCEPT !.fn = "mark"] ELSE ret
    /\ UNCHANGED <<files, handles, loaded, pc, loc, trace, budget, ud>>

\* resetPluginsFixFlag() called by the page
CallReset ==
    /\ pc = "idle"
    /\ ls' = resetPluginsFixFlag(ls, ss)[1]
    /\ ss' = resetPluginsFixFlag(ls, ss)[2]
    /\ hist' = [hist EXCEPT !.applied = FALSE, !.outside = TRUE]
    /\ ret' = [NoRet EXCEPT !.fn = "reset"]
    /\ UNCHANGED <<files, handles, loaded, pc, loc, trace, budget, ud>>

\* the exploit loader records that the runtime is loaded
EnvExploitLoaded ==
    /\ pc \in {"idle", "A_sleep"}
    /\ budget.env > 0
    /\ ls[EXPLOIT] # "yes"
    /\ ls' = [ls EXCEPT ![EXPLOIT] = "yes"]
    /\ budget' = [budget EXCEPT !.env = @ - 1]
    /\ hist' = [hist EXCEPT !.outside = TRUE]
    /\ ret' = IF pc = "idle" THEN NoRet ELSE ret
    /\ UNCHANGED <<ss, files, handles, loaded, pc, loc, trace, ud>>

\* a new browsing session: the session store starts empty
SessionRestart ==
    /\ pc = "idle"
    /\ budget.env > 0
    /\ ss # [k \in Keys |-> NULL]
    /\ ss' = [k \in Keys |-> NULL]
    /\ budget' = [budget EXCEPT !.env = @ - 1]
    /\ hist' = [hist EXCEPT !.outside = TRUE]
    /\ ret' = NoRet
    /\ UNCHANGED <<ls, files, handles, loaded, pc, loc, trace, ud>>

---------------------------------------------------------------------------
(* autoFixGoldHEN, step 2: sleep(1500) *)

A_sleep ==
    /\ pc = "A_sleep"
    /\ trace' = Append(trace, Ev("delay", <<>>, 1500))
    /\ loc' = [loc EXCEPT !.opIdx = 1]
    /\ pc' = "R_op"
    /\ UNCHANGED <<ls, ss, files, handles, loaded, hist, ret, budget, ud>>

(* reactivatePlugins: head of the loop over fix_payload.operations *)

R_op ==
    /\ pc = "R_op"
    /\ IF loc.opIdx > Len(fix_sequence)
       THEN /\ pc' = "U_find"
            /\ loc' = [loc EXCEPT !.uIdx = 1]
            /\ trace' = trace
       ELSE LET operation == fix_sequence[loc.opIdx]
            IN  IF operation.delay # 0
                THEN /\ trace' = Append(trace, Ev("delay", <<>>, operation.delay))
                     /\ loc' = [loc EXCEPT !.opIdx = @ + 1]
                     /\ pc' = "R_op"
                ELSE /\ trace' = Append(trace,
                            Ev("set", SettingLine(operation.setting, operation.value), 0))
                     /\ loc' = loc
                     /\ pc' = "M_open"
    /\ hist' = IF pc' = "M_open"
               THEN [hist EXCEPT !.atSet = [file |-> files[GOLDHEN_CONFIG_PATH],
                                            nh |-> Len(handles)]]
               ELSE hist
    /\ UNCHANGED <<ls, ss, files, handles, loaded, ret, budget, ud>>

R_sleep50 ==
    /\ pc = "R_sleep50"
    /\ trace' = Append(trace, Ev("delay", <<>>, 50))
    /\ loc' = [loc EXCEPT !.opIdx = @ + 1]
    /\ pc' = "R_op"
    /\ UNCHANGED <<ls, ss, files, handles, loaded, hist, ret, budget, ud>>

---------------------------------------------------------------------------
(* modifyGoldHENSetting *)

\* leaving modifyGoldHENSetting with return value r
ModifyReturn(r) == Continue("R_sleep50", [loc EXCEPT !.modRet = r])

M_open(o) ==
    /\ pc = "M_open"
    /\ trace' = Append(trace, Call("open", <<GOLDHEN_CONFIG_PATH, O_RDWR_CREAT>>, o))
    /\ budget' = Spend(o)
    /\ CASE o = "ok" ->
              /\ files' = FilesAfterOpen(files, GOLDHEN_CONFIG_PATH, O_RDWR_CREAT)
              /\ handles' = Append(handles, NewHandle(GOLDHEN_CONFIG_PATH, O_RDWR_CREAT))
              /\ Continue("M_read", [loc EXCEPT !.fd = Len(handles) + 1, !.bytes = <<>>,
                                                !.bytes_read = 0])
         [] o = "fail" ->
              /\ ModifyReturn(FALSE)
              /\ UNCHANGED <<files, handles>>
         [] o = "throw" ->
              /\ Raise(InModify)
              /\ UNCHANGED <<files, handles>>
    /\ UNCHANGED <<ls, ss, loaded, hist, ud>>

M_read(o) ==
    /\ pc = "M_read"
    /\ trace' = Append(trace, Call("read", <<GOLDHEN_CONFIG_PATH>>, o))
    /\ budget' = Spend(o)
    /\ LET h == handles[loc.fd]
           got == ReadBytes(files[h.path].data, h.pos, ConfigBufferSize)
       IN  CASE o = "ok" ->
                  /\ handles' = [handles EXCEPT ![loc.fd].pos = @ + Len(got)]
                  /\ Continue(IF Len(got) > 0 THEN "M_lseek" ELSE "M_close",
                              [loc EXCEPT !.bytes = got, !.bytes_read = Len(got)])
             [] o = "fail" ->
                  /\ handles' = handles
                  /\ Continue("M_close", [loc EXCEPT !.bytes_read = -1])
             [] o = "throw" ->
                  /\ handles' = handles
                  /\ Raise(InModify)
    /\ UNCHANGED <<ls, ss, files, loaded, hist, ud>>

M_lseek(o) ==
    /\ pc = "M_lseek"
    /\ trace' = Append(trace, Call("lseek", <<GOLDHEN_CONFIG_PATH>>, o))
    /\ budget' = Spend(o)
    /\ handles' = IF o = "ok" THEN [handles EXCEPT ![loc.fd].pos = 0] ELSE handles
    /\ IF o = "throw" THEN Raise(InModify) ELSE Continue("M_trunc", loc)
    /\ UNCHANGED <<ls, ss, files, loaded, hist, ud>>

M_trunc(o) ==
    /\ pc = "M_trunc"
    /\ trace' = Append(trace, Call("ftruncate", <<GOLDHEN_CONFIG_PATH>>, o))
    /\ budget' = Spend(o)
    /\ files' = IF o = "ok" THEN [files EXCEPT ![GOLDHEN_CONFIG_PATH].data = <<>>]
                ELSE files
    /\ IF o = "throw" THEN Raise(InModify) ELSE Continue("M_write", loc)
    /\ UNCHANGED <<ls, ss, handles, loaded, hist, ud>>

M_write(o) ==
    /\ pc = "M_write"
    /\ trace' = Append(trace, Call("write", <<GOLDHEN_CONFIG_PATH>>, o))
    /\ budget' = Spend(o)
    /\ LET operation == fix_sequence[loc.opIdx]
           updated_config ==
               updateConfigSetting(loc.bytes, operation.setting, operation.value)
           h == handles[loc.fd]
       IN  IF o = "ok"
           THEN /\ files' = [files EXCEPT ![h.path].data =
                                  WriteAt(@, h.pos, updated_config)]
                /\ handles' = [handles EXCEPT ![loc.fd].pos = @ + Len(updated_config)]
           ELSE UNCHANGED <<files, handles>>
    /\ IF o = "throw" THEN Raise(InModify) ELSE Continue("M_close", loc)
    /\ UNCHANGED <<ls, ss, loaded, hist, ud>>

M_close(o) ==
    /\ pc = "M_close"
    /\ trace' = Append(trace, Call("close", <<GOLDHEN_CONFIG_PATH>>, o))
    /\ budget' = Spend(o)
    /\ handles' = Closed(handles, loc.fd)
    /\ IF o = "throw" THEN Raise(InModify) ELSE ModifyReturn(TRUE)
    /\ UNCHANGED <<ls, ss, files, loaded, hist, ud>>

---------------------------------------------------------------------------
(* forcePluginsReload: unloadPlugins *)

\* after the attempt for plugins_to_unload[loc.uIdx]
U_next(l) ==
    IF l.uIdx >= Len(plugins_to_unload)
    THEN Continue("F_sleep1", l)
    ELSE Continue("U_find", [l EXCEPT !.uIdx = @ + 1])

U_find(o) ==
    /\ pc = "U_find"
    /\ LET plugin == plugins_to_unload[loc.uIdx]
       IN  /\ trace' = Append(trace, Call("dynlib_get_list", plugin,
                                        IF o = "ok" /\ plugin \notin loaded
                                        THEN "fail" ELSE o))
           /\ CASE o = "throw" -> Raise(InUnloadLoop)
                [] o = "ok" /\ plugin \in loaded ->
                       Continue("U_unload", [loc EXCEPT !.handle = plugin])
                [] OTHER -> U_next(loc)
    /\ budget' = Spend(o)
    /\ UNCHANGED <<ls, ss, files, handles, loaded, hist, ud>>

U_unload(o) ==
    /\ pc = "U_unload"
    /\ trace' = Append(trace, Call("dynlib_unload_prx", loc.handle, o))
    /\ budget' = Spend(o)
    /\ loaded' = IF o = "ok" THEN loaded \ {loc.handle} ELSE loaded
    /\ IF o = "throw" THEN Raise(InUnloadLoop) ELSE U_next(loc)
    /\ UNCHANGED <<ls, ss, files, handles, hist, ud>>

F_sleep1 ==
    /\ pc = "F_sleep1"
    /\ trace' = Append(trace, Ev("delay", <<>>, 200))
    /\ pc' = "L_open"
    /\ UNCHANGED <<ls, ss, files, handles, loaded, loc, hist, ret, budget, ud>>

---------------------------------------------------------------------------
(* forcePluginsReload: loadPlugins *)

\* an open of a missing file without O_CREAT cannot succeed
OpenOutcomes(path, flags) ==
    IF CanOpen(files, path, flags) THEN Outcomes ELSE {"fail", "throw"}

SpendOpen(o, path, flags) ==
    IF CanOpen(files, path, flags) THEN Spend(o) ELSE budget

L_open(o) ==
    /\ pc = "L_open"
    /\ o \in OpenOutcomes(PLUGINS_INI_PATH, O_RDONLY)
    /\ trace' = Append(trace, Call("open", <<PLUGINS_INI_PATH, O_RDONLY>>, o))
    /\ budget' = SpendOpen(o, PLUGINS_INI_PATH, O_RDONLY)
    /\ CASE o = "ok" ->
              /\ handles' = Append(handles, NewHandle(PLUGINS_INI_PATH, O_RDONLY))
              /\ Continue("L_read", [loc EXCEPT !.fd = Len(handles) + 1, !.bytes = <<>>,
                                                !.bytes_read = 0, !.paths = <<>>])
         [] o = "fail" ->
              /\ handles' = handles
              /\ Continue("F_sleep2", loc)
         [] o = "throw" ->
              /\ handles' = handles
              /\ Raise(InLoad)
    /\ UNCHANGED <<ls, ss, files, loaded, hist, ud>>

L_read(o) ==
    /\ pc = "L_read"
    /\ trace' = Append(trace, Call("read", <<PLUGINS_INI_PATH>>, o))
    /\ budget' = Spend(o)
    /\ LET h == handles[loc.fd]
           got == ReadBytes(files[h.path].data, h.pos, PluginsBufferSize)
       IN  CASE o = "ok" ->
                  /\ handles' = [handles EXCEPT ![loc.fd].pos = @ + Len(got)]
                  /\ Continue("L_close",
                              [loc EXCEPT !.bytes = got, !.bytes_read = Len(got)])
             [] o = "fail" ->
                  /\ handles' = handles
                  /\ Continue("L_close", [loc EXCEPT !.bytes_read = -1])
             [] o = "throw" ->
                  /\ handles' = handles
                  /\ Raise(InLoad)
    /\ UNCHANGED <<ls, ss, files, loaded, hist, ud>>

L_close(o) ==
    /\ pc = "L_close"
    /\ trace' = Append(trace, Call("close", <<PLUGINS_INI_PATH>>, o))
    /\ budget' = Spend(o)
    /\ handles' = Closed(handles, loc.fd)
    /\ LET plugin_paths == parsePluginsList(loc.bytes)
       IN  CASE o = "throw" -> Raise(InLoad)
             [] o # "throw" /\ loc.bytes_read > 0 /\ plugin_paths # <<>> ->
                    Continue("L_load", [loc EXCEPT !.paths = plugin_paths, !.lIdx = 1])
             [] OTHER -> Continue("F_sleep2", loc)
    /\ UNCHANGED <<ls, ss, files, loaded, hist, ud>>

L_load(o) ==
    /\ pc = "L_load"
    /\ LET plugin_path == loc.paths[loc.lIdx]
       IN  /\ trace' = Append(trace, Call("dynlib_load_prx", plugin_path, o))
           /\ loaded' = IF o = "ok" THEN loaded \cup {UnitOf(plugin_path)} ELSE loaded
    /\ budget' = Spend(o)
    /\ CASE o = "throw" -> Raise(InLoadLoop)
         [] o # "throw" /\ loc.lIdx >= Len(loc.paths) -> Continue("F_sleep2", loc)
         [] OTHER -> Continue("L_load", [loc EXCEPT !.lIdx = @ + 1])
    /\ UNCHANGED <<ls, ss, files, handles, hist, ud>>

\* sleep(200), then forcePluginsReload, reactivatePlugins and fixGoldHENPlugins return
F_sleep2 ==
    /\ pc = "F_sleep2"
    /\ trace' = Append(trace, Ev("delay", <<>>, 200))
    /\ loc' = [loc EXCEPT !.fixResult = TRUE]
    /\ pc' = "O_open"
    /\ UNCHANGED <<ls, ss, files, handles, loaded, hist, ret, budget, ud>>

---------------------------------------------------------------------------
(* optimizeGoldHENConfig *)

O_open(o) ==
    /\ pc = "O_open"
    /\ trace' = Append(trace, Call("open", <<GOLDHEN_CONFIG_PATH, O_WRONLY_CREAT>>, o))
    /\ budget' = Spend(o)
    /\ CASE o = "ok" ->
              /\ files' = FilesAfterOpen(files, GOLDHEN_CONFIG_PATH, O_WRONLY_CREAT)
              /\ handles' = Append(handles, NewHandle(GOLDHEN_CONFIG_PATH, O_WRONLY_CREAT))
              /\ Continue("O_write", [loc EXCEPT !.fd = Len(handles) + 1])
         [] o = "fail" ->
              /\ Continue("A_verify", loc)
              /\ UNCHANGED <<files, handles>>
         [] o = "throw" ->
              /\ Raise(InOptimize)
              /\ UNCHANGED <<files, handles>>
    /\ UNCHANGED <<ls, ss, loaded, hist, ud>>

O_write(o) ==
    /\ pc = "O_write"
    /\ trace' = Append(trace, Call("write", <<GOLDHEN_CONFIG_PATH>>, o))
    /\ budget' = Spend(o)
    /\ LET h == handles[loc.fd]
       IN  IF o = "ok"
           THEN /\ files' = [files EXCEPT ![h.path].data =
                                  WriteAt(@, h.pos, createOptimalConfig)]
                /\ handles' = [handles EXCEPT ![loc.fd].pos = @ + Len(createOptimalConfig)]
           ELSE UNCHANGED <<files, handles>>
    /\ IF o = "throw" THEN Raise(InOptimize) ELSE Continue("O_close", loc)
    /\ UNCHANGED <<ls, ss, loaded, hist, ud>>

O_close(o) ==
    /\ pc = "O_close"
    /\ trace' = Append(trace, Call("close", <<GOLDHEN_CONFIG_PATH>>, o))
    /\ budget' = Spend(o)
    /\ handles' = Closed(handles, loc.fd)
    /\ IF o = "throw" THEN Raise(InOptimize) ELSE Continue("A_verify", loc)
    /\ UNCHANGED <<ls, ss, files, loaded, hist, ud>>

---------------------------------------------------------------------------
(* autoFixGoldHEN, steps 5 and 6 *)

\* Variant: the flag is set whatever the verification says.
MarksAfterVerifyAlways(verifyResult) == TRUE

\* whether step 6 calls markPluginsFixApplied()
MarksAfterVerify(verifyResult) == verifyResult.success

A_verify ==
    /\ pc = "A_verify"
    /\ LET verifyResult == verifyFixApplication(ls, ss)
       IN  /\ hist' = [hist EXCEPT !.verified = verifyResult.success,
                          !.marks = IF MarksAfterVerify(verifyResult) THEN @ + 1 ELSE @,
                          !.applied = IF MarksAfterVerify(verifyResult) THEN TRUE ELSE @]
           /\ IF MarksAfterVerify(verifyResult)
              THEN /\ ls' = markPluginsFixApplied(ls, ss)[1]
                   /\ ss' = [markPluginsFixApplied(ls, ss)[2] EXCEPT ![MSG] = "message"]
                   /\ ret' = [ret EXCEPT !.success = TRUE, !.marked = TRUE]
              ELSE /\ UNCHANGED <<ls, ss>>
                   /\ ret' = [ret EXCEPT !.success = FALSE,
                                         !.issues = verifyResult.issues]
    /\ pc' = "idle"
    /\ UNCHANGED <<files, handles, loaded, loc, trace, budget, ud>>

---------------------------------------------------------------------------
(* debugGoldHENIssues *)

CallDebug ==
    /\ pc = "idle"
    /\ budget.calls > 0
    /\ budget' = [budget EXCEPT !.calls = @ - 1]
    /\ trace' = <<>>
    /\ loc' = NoLoc
    /\ hist' = [hist EXCEPT !.snap = Snapshot(ls, ss), !.marks = 0,
                            !.verified = FALSE, !.outside = FALSE,
                            !.prior = <<ls, ss>>]
    /\ ret' = [NoRet EXCEPT !.fn = "debug"]
    /\ pc' = "D_open"
    /\ UNCHANGED <<ls, ss, files, handles, loaded, ud>>

\* Variant: the probe opens the file read-write, creating it when absent.
DebugOpenFlagsCreating == "0x602"

\* the flag word of the accessibility probe
DebugOpenFlags == O_RDONLY

D_open(o) ==
    /\ pc = "D_open"
    /\ o \in OpenOutcomes(GOLDHEN_CONFIG_PATH, DebugOpenFlags)
    /\ trace' = Append(trace, Call("open", <<GOLDHEN_CONFIG_PATH, DebugOpenFlags>>, o))
    /\ budget' = SpendOpen(o, GOLDHEN_CONFIG_PATH, DebugOpenFlags)
    /\ CASE o = "ok" ->
              /\ files' = FilesAfterOpen(files, GOLDHEN_CONFIG_PATH, DebugOpenFlags)
              /\ handles' = Append(handles, NewHandle(GOLDHEN_CONFIG_PATH, DebugOpenFlags))
              /\ Continue("D_close", [loc EXCEPT !.fd = Len(handles) + 1])
         [] o = "fail" ->
              /\ UNCHANGED <<files, handles>>
              /\ Continue("idle", loc)
         [] o = "throw" ->
              /\ UNCHANGED <<files, handles>>
              /\ Raise(InDebug)
    /\ UNCHANGED <<ls, ss, loaded, hist, ud>>

D_close(o) ==
    /\ pc = "D_close"
    /\ trace' = Append(trace, Call("close", <<GOLDHEN_CONFIG_PATH>>, o))
    /\ budget' = Spend(o)
    /\ handles' = Closed(handles, loc.fd)
    /\ IF o = "throw" THEN Raise(InDebug) ELSE Continue("idle", loc)
    /\ UNCHANGED <<ls, ss, files, loaded, hist, ud>>

---------------------------------------------------------------------------
(* The orchestrator with its callers *)

\* the steps of a run, from the first suspension to the return
Steps ==
    \/ A_sleep
    \/ R_op
    \/ R_sleep50
    \/ \E o \in Outcomes : M_open(o)
    \/ \E o \in Outcomes : M_read(o)
    \/ \E o \in Outcomes : M_lseek(o)
    \/ \E o \in Outcomes : M_trunc(o)
    \/ \E o \in Outcomes : M_write(o)
    \/ \E o \in Outcomes : M_close(o)
    \/ \E o \in Outcomes : U_find(o)
    \/ \E o \in Outcomes : U_unload(o)
    \/ F_sleep1
    \/ \E o \in {"ok", "fail", "throw"} : L_open(o)
    \/ \E o \in Outcomes : L_read(o)
    \/ \E o \in Outcomes : L_close(o)
    \/ \E o \in Outcomes : L_load(o)
    \/ F_sleep2
    \/ \E o \in Outcomes : O_open(o)
    \/ \E o \in Outcomes : O_write(o)
    \/ \E o \in Outcomes : O_close(o)
    \/ A_verify
    \/ \E o \in {"ok", "fail", "throw"} : D_open(o)
    \/ \E o \in Outcomes : D_close(o)

Next ==
    \/ CallAutoFix
    \/ CallForceReapply
    \/ CallDebug
    \/ CallShouldApply
    \/ CallMark
    \/ CallReset
    \/ EnvExploitLoaded
    \/ SessionRestart
    \/ Steps

NextFaults ==
    \/ CallAutoFix
    \/ CallDebug
    \/ Steps

\* the orchestrator and its callers on a RawStore that does not fail
Spec == Init /\ [][Next]_vars

\* entry calls under RawStore failures
SpecFaults == InitFaults /\ [][NextFaults]_vars

---------------------------------------------------------------------------
(* The pure upsert, exercised on bounded documents *)

UpsertLines ==
    { <<>>,
      <<"[Settings]">>,
      <<"#", " ", "enable_plugins_loader">>,
      <<"enable_plugins_loader", "=", "0">>,
      <<"enable_plugins_loader", "=", "1">>,
      <<"enable_plugins_loader", "_v2", "=", "0">>,
      <<"enable_game_patch_plugin", "=", "0">>,
      <<"ftp_port", "=", "2121">> }

RECURSIVE DocsOfLen(_)
DocsOfLen(n) ==
    IF n = 0 THEN {<<>>}
    ELSE {Append(d, l) : d \in DocsOfLen(n - 1), l \in UpsertLines}

\* the documents of one to MaxLines lines, as texts
UpsertDocs == {Join(d) : d \in UNION {DocsOfLen(n) : n \in 1..MaxLines}}

InitUpsert ==
    /\ ud \in {[NoUd EXCEPT !.d = d, !.k = k, !.v1 = v1, !.v2 = v2] :
                  d \in UpsertDocs, k \in {LOADER, PATCH},
                  v1 \in {<<"0">>, <<"1">>}, v2 \in {<<"0">>, <<"1">>}}
    /\ ls = [k \in Keys |-> NULL]
    /\ ss = [k \in Keys |-> NULL]
    /\ files = [p \in Paths |-> NoFile]
    /\ handles = <<>>
    /\ loaded = {}
    /\ pc = "idle"
    /\ loc = NoLoc
    /\ trace = <<>>
    /\ hist = [snap |-> Snapshot(ls, ss), applied |-> FALSE, marks |-> 0,
               verified |-> FALSE, outside |-> FALSE, prior |-> <<ls, ss>>,
                atSet |-> [file |-> NoFile, nh |-> 0]]
    /\ ret = NoRet
    /\ budget = [faults |-> 0, spent |-> 0, calls |-> 0, env |-> 0]

Upsert ==
    /\ ~ud.done
    /\ ud' = [ud EXCEPT !.done = TRUE,
                 !.once = updateConfigSetting(ud.d, ud.k, ud.v1),
                 !.twice = updateConfigSetting(
                               updateConfigSetting(ud.d, ud.k, ud.v1), ud.k, ud.v2),
                 !.direct = updateConfigSetting(ud.d, ud.k, ud.v2)]
    /\ UNCHANGED <<ls, ss, files, handles, loaded, pc, loc, trace, hist, ret, budget>>

SpecUpsert == InitUpsert /\ [][Upsert]_vars

---------------------------------------------------------------------------
(* parsePluginsList, exercised on bounded manifests *)

ManifestLines ==
    { <<>>,
      <<" ", "\t">>,
      <<"[", "default", "]">>,
      <<"#", " ", PLUGIN_DIR, "special_patch", PRX>>,
      <<" ", "#", PLUGIN_DIR, "special_patch", PRX>>,
      <<PLUGIN_DIR, "game_patch", PRX>>,
      <<" ", PLUGIN_DIR, "cheat_manager", PRX, " ", "\r">>,
      <<PLUGIN_DIR, "readme", ".txt">> }

RECURSIVE ManifestsOfLen(_)
ManifestsOfLen(n) ==
    IF n = 0 THEN {<<>>}
    ELSE {Append(d, l) : d \in ManifestsOfLen(n - 1), l \in ManifestLines}

\* a header, a comment, a blank line and two plugin paths
ExampleManifest ==
    << "[", "default", "]", NL,
       "#", " ", "plugins", NL,
       NL,
       PLUGIN_DIR, "game_patch", PRX, NL,
       PLUGIN_DIR, "cheat_manager", PRX >>

Manifests ==
    {Join(d) : d \in UNION {ManifestsOfLen(n) : n \in 1..MaxManifestLines}}
    \cup {ExampleManifest, DEFAULT_PLUGINS_CONFIG}

InitManifest ==
    /\ ud \in {[NoUd EXCEPT !.d = d] : d \in Manifests}
    /\ ls = [k \in Keys |-> NULL]
    /\ ss = [k \in Keys |-> NULL]
    /\ files = [p \in Paths |-> NoFile]
    /\ handles = <<>>
    /\ loaded = {}
    /\ pc = "idle"
    /\ loc = NoLoc
    /\ trace = <<>>
    /\ hist = [snap |-> Snapshot(ls, ss), applied |-> FALSE, marks |-> 0,
               verified |-> FALSE, outside |-> FALSE, prior |-> <<ls, ss>>,
                atSet |-> [file |-> NoFile, nh |-> 0]]
    /\ ret = NoRet
    /\ budget = [faults |-> 0, spent |-> 0, calls |-> 0, env |-> 0]

ParseManifest ==
    /\ ~ud.done
    /\ ud' = [ud EXCEPT !.done = TRUE, !.paths = parsePluginsList(ud.d)]
    /\ UNCHANGED <<ls, ss, files, handles, loaded, pc, loc, trace, hist, ret, budget>>

SpecManifest == InitManifest /\ [][ParseManifest]_vars

---------------------------------------------------------------------------
(* ConfigAdvisor, exercised on bounded documents *)

AdvisorLines ==
    { <<"[Settings]">>,
      <<"enable_plugins_loader", "=", "1">>,
      <<"enable_plugins_loader", "=", "0">>,
      <<"enable_game_patch_plugin", "=", "1">>,
      <<"enable_homebrew_blocker", "=", "1">>,
      <<"enable_homebrew_blocker", "=", "0">>,
      <<"enable_ftp_server", "=", "1">> }

RECURSIVE AdvisorDocsOfLen(_)
AdvisorDocsOfLen(n) ==
    IF n = 0 THEN {<<>>}
    ELSE {Append(d, l) : d \in AdvisorDocsOfLen(n - 1), l \in AdvisorLines}

\* the documents of up to MaxConfigLines lines, and the canonical document
AdvisorDocs ==
    {Join(d) : d \in UNION {AdvisorDocsOfLen(n) : n \in 0..MaxConfigLines}}
    \cup {createOptimalConfig}

InitAdvisor ==
    /\ ud \in {[NoUd EXCEPT !.d = d] : d \in AdvisorDocs}
    /\ ls = [k \in Keys |-> NULL]
    /\ ss = [k \in Keys |-> NULL]
    /\ files = [p \in Paths |-> NoFile]
    /\ handles = <<>>
    /\ loaded = {}
    /\ pc = "idle"
    /\ loc = NoLoc
    /\ trace = <<>>
    /\ hist = [snap |-> Snapshot(ls, ss), applied |-> FALSE, marks |-> 0,
               verified |-> FALSE, outside |-> FALSE, prior |-> <<ls, ss>>,
                atSet |-> [file |-> NoFile, nh |-> 0]]
    /\ ret = NoRet
    /\ budget = [faults |-> 0, spent |-> 0, calls |-> 0, env |-> 0]

Validate ==
    /\ ~ud.done
    /\ ud' = [ud EXCEPT !.done = TRUE, !.report = validateGoldHENConfig(ud.d)]
    /\ UNCHANGED <<ls, ss, files, handles, loaded, pc, loc, trace, hist, ret, budget>>

SpecAdvisor == InitAdvisor /\ [][Validate]_vars

---------------------------------------------------------------------------
(* The recommendations, exercised on bounded documents *)

AdviceLines ==
    { <<"[Settings]">>,
      <<REST_MODE, "=", "1">>,
      <<REST_MODE, "=", "0">>,
      <<APP_BROWSER, "=", "1">>,
      <<APP_BROWSER, "=", "0">>,
      <<DEBUG_LOG, "=", "1">>,
      <<DEBUG_LOG, "=", "0">>,
      <<"ftp_port", "=", "2121">>,
      <<"#", " ", APP_BROWSER, "=", "0", ",", " ", REST_MODE, "=", "1">> }

RECURSIVE AdviceDocsOfLen(_)
AdviceDocsOfLen(n) ==
    IF n = 0 THEN {<<>>}
    ELSE {Append(d, l) : d \in AdviceDocsOfLen(n - 1), l \in AdviceLines}

\* the documents of up to MaxAdviceLines lines, and the canonical document
AdviceDocs ==
    {Join(d) : d \in UNION {AdviceDocsOfLen(n) : n \in 0..MaxAdviceLines}}
    \cup {createOptimalConfig}

InitAdvice ==
    /\ ud \in {[NoUd EXCEPT !.d = d] : d \in AdviceDocs}
    /\ ls = [k \in Keys |-> NULL]
    /\ ss = [k \in Keys |-> NULL]
    /\ files = [p \in Paths |-> NoFile]
    /\ handles = <<>>
    /\ loaded = {}
    /\ pc = "idle"
    /\ loc = NoLoc
    /\ trace = <<>>
    /\ hist = [snap |-> Snapshot(ls, ss), applied |-> FALSE, marks |-> 0,
               verified |-> FALSE, outside |-> FALSE, prior |-> <<ls, ss>>,
                atSet |-> [file |-> NoFile, nh |-> 0]]
    /\ ret = NoRet
    /\ budget = [faults |-> 0, spent |-> 0, calls |-> 0, env |-> 0]

\* the recommendations of a document, the document with them applied, the
\* recommendations of that one, and the document with none applied
Advise ==
    /\ ~ud.done
    /\ LET recs == getOptimizationRecommendations(ud.d)
           applied == applyRecommendations(ud.d, recs)
       IN  ud' = [ud EXCEPT !.done = TRUE,
                            !.recs = recs,
                            !.applied = applied,
                            !.again = getOptimizationRecommendations(applied),
                            !.same = applyRecommendations(ud.d, <<>>)]
    /\ UNCHANGED <<ls, ss, files, handles, loaded, pc, loc, trace, hist, ret, budget>>

SpecAdvice == InitAdvice /\ [][Advise]_vars

---------------------------------------------------------------------------
(* verifyFixApplication, exercised on every content of the two stores *)

InitVerify ==
    /\ ls \in {[k \in Keys |-> IF k = FIX THEN a ELSE IF k = EXPLOIT THEN b ELSE NULL] :
                  a \in FlagValues, b \in {NULL, "yes", "no"}}
    /\ ss \in {[k \in Keys |-> IF k = FIX THEN a ELSE IF k = EXPLOIT THEN b ELSE NULL] :
                  a \in FlagValues, b \in {NULL, "yes"}}
    /\ ud = NoUd
    /\ files = [p \in Paths |-> NoFile]
    /\ handles = <<>>
    /\ loaded = {}
    /\ pc = "idle"
    /\ loc = NoLoc
    /\ trace = <<>>
    /\ hist = [snap |-> Snapshot(ls, ss), applied |-> FALSE, marks |-> 0,
               verified |-> FALSE, outside |-> FALSE, prior |-> <<ls, ss>>,
                atSet |-> [file |-> NoFile, nh |-> 0]]
    /\ ret = NoRet
    /\ budget = [faults |-> 0, spent |-> 0, calls |-> 0, env |-> 0]

Verify ==
    /\ ~ud.done
    /\ ud' = [ud EXCEPT !.done = TRUE, !.verify = verifyFixApplication(ls, ss)]
    /\ UNCHANGED <<ls, ss, files, handles, loaded, pc, loc, trace, hist, ret, budget>>

SpecVerify == InitVerify /\ [][Verify]_vars

---------------------------------------------------------------------------
(* Properties *)

Returned(fns) == pc = "idle" /\ ret.fn \in fns

FlagHeld(store) == store[FIX] = "true"

\* C1: once markPluginsFixApplied() has been called and resetPluginsFixFlag()
\* has not been called since, shouldApplyPluginsFix() answers false, whichever
\* store is consulted first, and a call made then returned false.
C1_GateSuppressesRerun ==
    hist.applied =>
        /\ ~shouldApplyPluginsFix(ls, ss)
        /\ ~shouldApplySessionFirst(ls, ss)
        /\ (Returned({"should"}) => ret.value = FALSE)

\* marked, then the session store emptied by a restart, then asked
C1_Witness ==
    /\ hist.applied
    /\ Returned({"should"})
    /\ ~FlagHeld(ss)
    /\ FlagHeld(ls)

\* C2: shouldApplyPluginsFix() returns false iff the durable store or the
\* session store holds the flag with the value "true".
C2_GateIsOrOfStores ==
    Returned({"should"}) => (ret.value = FALSE <=> (FlagHeld(ls) \/ FlagHeld(ss)))

\* asked while only the session store holds the flag, the durable store
\* holding another value
C2_Witness ==
    /\ Returned({"should"})
    /\ ret.value = FALSE
    /\ FlagHeld(ss)
    /\ ls[FIX] = "false"

\* C3: a run that the gate did not skip calls markPluginsFixApplied() exactly
\* when the verification report says success; otherwise it returns
\* success = false with the failed checks as issues and writes no flag.
C3_MarkIffVerified ==
    (Returned({"auto", "force"}) /\ ~ret.skipped) =>
        /\ hist.marks = (IF hist.verified THEN 1 ELSE 0)
        /\ ret.marked = hist.verified
        /\ ret.success = hist.verified
        /\ ~hist.verified =>
              /\ ret.issues # <<>>
              /\ ret.issues = verifyFixApplication(ls, ss).issues
              /\ (~hist.outside => ls = hist.snap.ls /\ ss = hist.snap.ss)

\* a run that was not skipped, verified successfully and marked
C3_Witness ==
    /\ Returned({"auto"})
    /\ ~ret.skipped
    /\ hist.verified
    /\ hist.marks = 1
    /\ FlagHeld(ls) /\ FlagHeld(ss)

\* C4: when either store holds the flag at entry, autoFixGoldHEN returns a
\* skipped success at once: no RawStore call, no delay, no flag write; files,
\* loaded units, descriptors and both stores are as at entry.
C4_SkipTouchesNothing ==
    (ret.fn = "auto" /\ (FlagHeld(hist.snap.ls) \/ FlagHeld(hist.snap.ss))) =>
        /\ pc = "idle"
        /\ ret.skipped /\ ret.success
        /\ trace = <<>>
        /\ files = hist.snap.files
        /\ loaded = hist.snap.loaded
        /\ Len(handles) = hist.snap.nh
        /\ ls = hist.snap.ls /\ ss = hist.snap.ss
        /\ hist.marks = 0

\* skipped because only the durable store holds the flag
C4_Witness ==
    /\ Returned({"auto"})
    /\ ret.skipped
    /\ FlagHeld(ls)
    /\ ~FlagHeld(ss)

IsSet(e, setting, value) == e.op = "set" /\ e.arg = SettingLine(setting, value)
IsDelay(e, ms) == e.op = "delay" /\ e.ms = ms
IsUnloadStep(e) == e.op \in {"dynlib_get_list", "dynlib_unload_prx"}
IsLoad(e) == e.op = "dynlib_load_prx"

CanonicalSets ==
    << SettingLine(LOADER, <<"0">>), SettingLine(PATCH, <<"0">>),
       SettingLine(LOADER, <<"1">>), SettingLine(PATCH, <<"1">>) >>

SetIndexes == {i \in 1..Len(trace) : trace[i].op = "set"}

\* the number of setting steps begun before trace position i
SetsBefore(i) == Cardinality({j \in SetIndexes : j < i})

Is100(e) == IsDelay(e, 100)
Is50(e) == IsDelay(e, 50)
Is200(e) == IsDelay(e, 200)

\* C5: the effects are issued in the canonical order, each step finished
\* before the next: loader 0, patch 0, delay, loader 1, patch 1, the unload
\* attempts for the whole unload set, delay, the loads of the manifest.
C5_CanonicalOrder ==
    LET sets == SetIndexes
        before(i) == Cardinality({j \in sets : j < i})
    IN
    /\ \A i \in sets : /\ before(i) < Len(CanonicalSets)
                       /\ trace[i].arg = CanonicalSets[before(i) + 1]
    /\ \A i \in sets, j \in sets :
          (i < j) => \E m \in (i + 1)..(j - 1) : Is50(trace[m])
    /\ \A i \in 1..Len(trace) :
          /\ (IsSet(trace[i], LOADER, <<"1">>)) =>
                \E m \in 1..(i - 1) :
                    /\ Is100(trace[m])
                    /\ \E n \in 1..(m - 1) : IsSet(trace[n], PATCH, <<"0">>)
          /\ Is100(trace[i]) => before(i) = 2
          /\ IsUnloadStep(trace[i]) =>
                /\ before(i) = Len(CanonicalSets)
                /\ \A m \in 1..(i - 1) : ~IsLoad(trace[m])
                /\ \E m \in 1..(i - 1) : Is50(trace[m]) /\ before(m) = 4
          /\ IsLoad(trace[i]) =>
                /\ \A n \in 1..Len(plugins_to_unload) :
                      \E m \in 1..(i - 1) :
                          /\ trace[m].op = "dynlib_get_list"
                          /\ trace[m].arg = plugins_to_unload[n]
                /\ \E m \in 1..(i - 1) :
                      /\ Is200(trace[m])
                      /\ \A n \in (m + 1)..(i - 1) : ~IsUnloadStep(trace[n])
                      /\ \A n \in 1..(m - 1) : ~IsLoad(trace[n])

\* the whole sequence ran although one RawStore call failed on the way
C5_Witness ==
    /\ pc = "O_open"
    /\ budget.spent > 0
    /\ \E i \in 1..Len(trace) : IsLoad(trace[i])
    /\ \E i \in 1..Len(trace) : trace[i].op = "dynlib_unload_prx"

ConfigLines == Split(files[GOLDHEN_CONFIG_PATH].data)

HasLine(lines, line) == \E i \in 1..Len(lines) : lines[i] = line

\* C6: from a non-empty configuration file and with no RawStore call failing,
\* the document left by the sequence shows both settings at 1 and neither at 0.
C6_FinalDocumentEnabled ==
    (/\ pc = "U_find" /\ loc.uIdx = 1
     /\ budget.spent = 0
     /\ hist.snap.files[GOLDHEN_CONFIG_PATH].exists
     /\ hist.snap.files[GOLDHEN_CONFIG_PATH].data # <<>>) =>
        /\ HasLine(ConfigLines, SettingLine(LOADER, <<"1">>))
        /\ HasLine(ConfigLines, SettingLine(PATCH, <<"1">>))
        /\ ~HasLine(ConfigLines, SettingLine(LOADER, <<"0">>))
        /\ ~HasLine(ConfigLines, SettingLine(PATCH, <<"0">>))

DefiningLines(text, k) ==
    {i \in 1..Len(Split(text)) : StartsWith(Split(text)[i], k \o <<"=">>)}

\* C7: on a document with at most one line defining k, upserting v1 and then
\* v2 gives the document that upserting v2 alone gives, with exactly one line
\* defining k, of value v2; with v1 = v2 twice is the same as once.
C7_UpsertIdempotentLastWriteWins ==
    (ud.done /\ Cardinality(DefiningLines(ud.d, ud.k)) <= 1) =>
        /\ ud.twice = ud.direct
        /\ (ud.v1 = ud.v2 => ud.twice = ud.once)
        /\ Cardinality(DefiningLines(ud.twice, ud.k)) = 1
        /\ \A i \in DefiningLines(ud.twice, ud.k) :
              Split(ud.twice)[i] = SettingLine(ud.k, ud.v2)

\* C8: the upsert replaces in place a line that defines k, or appends k=v when
\* no line defines k; every other line stays as it was, in the same order.
C8_UpsertPreservesOtherLines ==
    ud.done =>
        LET before == Split(ud.d)
            after == Split(ud.once)
            new == SettingLine(ud.k, ud.v1)
        IN  IF DefiningLines(ud.d, ud.k) # {}
            THEN \E i \in DefiningLines(ud.d, ud.k) :
                    after = [before EXCEPT ![i] = new]
            ELSE after = Append(before, new)

\* C9: when the open succeeded and the read returned nothing,
\* modifyGoldHENSetting returns true with the line key=value in the file.
C9_EmptyFileGetsSetting ==
    (pc = "R_sleep50" /\ loc.modRet /\ loc.bytes_read = 0) =>
        HasLine(ConfigLines,
                SettingLine(fix_sequence[loc.opIdx].setting,
                            fix_sequence[loc.opIdx].value))

InsideOpener ==
    pc \in {"M_read", "M_lseek", "M_trunc", "M_write", "M_close",
            "L_read", "L_close", "O_write", "O_close", "D_close"}

\* C10: outside the function that opened it, every descriptor has been closed
\* exactly once; none is open when autoFixGoldHEN returns.
C10_HandlesClosedOnEveryPath ==
    ~InsideOpener =>
        \A fd \in 1..Len(handles) : ~handles[fd].open /\ handles[fd].closes = 1

\* the statements at which a run that is under way can be suspended
StepPcs ==
    {"A_sleep", "R_op", "R_sleep50", "M_open", "M_read", "M_lseek", "M_trunc",
     "M_write", "M_close", "U_find", "U_unload", "F_sleep1", "L_open", "L_read",
     "L_close", "L_load", "F_sleep2", "O_open", "O_write", "O_close", "A_verify",
     "D_open", "D_close"}

\* C11: whatever RawStore call fails, by sentinel or by raising, no error
\* leaves autoFixGoldHEN: a run is at one of its statements until it returns,
\* never unwound to its caller, and what it returns has a boolean success.
C11_NoFailureIsFatal ==
    ret.fn = "auto" =>
        /\ pc # "raised"
        /\ pc \in StepPcs \cup {"idle"}
        /\ pc = "idle" => ret.success \in BOOLEAN

\* a run returned although a call raised: the descriptor whose close the
\* raise skipped is still open
C11_Witness ==
    /\ Returned({"auto"})
    /\ budget.spent > 0
    /\ ret.success \in BOOLEAN
    /\ \E fd \in 1..Len(handles) : handles[fd].open

\* t is line without the white space at its two ends
IsTrimOf(t, line) ==
    \E i \in 1..(Len(line) + 1), j \in 0..Len(line) :
        /\ t = SubSeq(line, i, j)
        /\ \A n \in 1..(i - 1) : line[n] \in WhiteSpace
        /\ \A n \in (j + 1)..Len(line) : line[n] \in WhiteSpace
        /\ t # <<>> => (t[1] \notin WhiteSpace /\ t[Len(t)] \notin WhiteSpace)

\* the line names a plugin: not blank, no header, no comment, with the suffix
Qualifies(line) ==
    \E i \in 1..Len(line) :
        /\ line[i] \notin WhiteSpace
        /\ \A n \in 1..(i - 1) : line[n] \in WhiteSpace
        /\ line[i] \notin {"[", "#"}
        /\ \E n \in i..Len(line) : line[n] = PRX

\* the k-th smallest member of the set of numbers Q
Nth(Q, k) == CHOOSE i \in Q : Cardinality({j \in Q : j < i}) = k - 1

\* C12: parsePluginsList returns the qualifying lines of the manifest, each
\* once and trimmed, in file order, and nothing else; for the manifest with a
\* header, a comment, a blank line and two paths it returns the two paths.
C12_ManifestFiltering ==
    ud.done =>
        LET lines == Split(ud.d)
            Q == {i \in 1..Len(lines) : Qualifies(lines[i])}
        IN  /\ Len(ud.paths) = Cardinality(Q)
            /\ \A k \in 1..Len(ud.paths) : IsTrimOf(ud.paths[k], lines[Nth(Q, k)])
            /\ ud.d = ExampleManifest =>
                   ud.paths = << <<PLUGIN_DIR, "game_patch", PRX>>,
                                 <<PLUGIN_DIR, "cheat_manager", PRX>> >>

\* a manifest with a comment that names a plugin and a path to be trimmed
C12_Witness ==
    /\ ud.done
    /\ Len(ud.paths) = 1
    /\ ud.paths[1] = <<PLUGIN_DIR, "cheat_manager", PRX>>
    /\ \E i \in 1..Len(Split(ud.d)) : StartsWith(Split(ud.d)[i], <<"#">>)

\* the text shows key=value
Shows(text, key, value) == Includes(text, <<key, "=", value>>)

\* the requirements on a document that it does not meet
Violated(text) ==
    {r \in {"loader", "patch", "server", "blocker"} :
        \/ r = "loader" /\ ~Shows(text, "enable_plugins_loader", "1")
        \/ r = "patch" /\ ~Shows(text, "enable_game_patch_plugin", "1")
        \/ r = "server" /\ ~Shows(text, "enable_ftp_server", "1")
        \/ r = "blocker" /\ Shows(text, "enable_homebrew_blocker", "1")}

\* C13: the report has one issue for each requirement the document violates
\* and the score max(0, 100 - 20k) for k issues; the score is 100 exactly
\* when there is no issue, exactly when isValid is true.
C13_ValidationScore ==
    ud.done =>
        LET k == Len(ud.report.issues)
        IN  /\ k = Cardinality(Violated(ud.d))
            /\ ud.report.score = (IF 100 - 20 * k > 0 THEN 100 - 20 * k ELSE 0)
            /\ (ud.report.score = 100) <=> (ud.report.issues = <<>>)
            /\ (ud.report.issues = <<>>) <=> ud.report.isValid

\* a document that violates two requirements, and scores 60
C13_Witness ==
    /\ ud.done
    /\ Len(ud.report.issues) = 2
    /\ ud.report.score = 60
    /\ ~ud.report.isValid

\* the three signals of the verification, in the order they are checked
Signals == <<FlagHeld(ls), FlagHeld(ss), ls[EXPLOIT] = "yes">>

\* C14: the report has three checks, one for each signal; success is true
\* exactly when the three signals are set; the issues are the checks that
\* failed, each once and in order.
C14_VerifierAggregation ==
    ud.done =>
        LET v == ud.verify
            failed == {i \in 1..Len(v.checks) : ~v.checks[i].success}
        IN  /\ Len(v.checks) = 3
            /\ \A i \in 1..3 : v.checks[i].success = Signals[i]
            /\ v.success <=> (\A i \in 1..3 : Signals[i])
            /\ Len(v.issues) = Cardinality(failed)
            /\ \A k \in 1..Len(v.issues) : v.issues[k] = v.checks[Nth(failed, k)]

\* both flags set and the runtime not loaded: one issue, the third check
C14_Witness ==
    /\ ud.done
    /\ FlagHeld(ls) /\ FlagHeld(ss)
    /\ ~ud.verify.success
    /\ Len(ud.verify.issues) = 1
    /\ ud.verify.issues[1].name = "GoldHEN loaded"

\* the settings of the setting steps begun so far, in order
SetArgs == [i \in 1..Cardinality(SetIndexes) |-> trace[Nth(SetIndexes, i)].arg]

\* the call op(arg) was issued
Issued(op, arg) == \E i \in 1..Len(trace) : trace[i].op = op /\ trace[i].arg = arg

\* C15: forceReapplyFix enters autoFixGoldHEN with the fix flag and the
\* runtime-loaded signal cleared in both stores, whatever they held; the run
\* is never skipped: when it returns, the four setting steps, the unload
\* attempts, the reload from the manifest and the write of the canonical
\* configuration have all been performed.
C15_ForceReapplyRunsInFull ==
    ret.fn = "force" =>
        /\ \A st \in {hist.snap.ls, hist.snap.ss} : st[FIX] = NULL /\ st[EXPLOIT] = NULL
        /\ ~ret.skipped
        /\ pc = "idle" =>
              /\ SetArgs = CanonicalSets
              /\ \A n \in 1..Len(plugins_to_unload) :
                    Issued("dynlib_get_list", plugins_to_unload[n])
              /\ Issued("open", <<PLUGINS_INI_PATH, O_RDONLY>>)
              /\ Issued("open", <<GOLDHEN_CONFIG_PATH, O_WRONLY_CREAT>>)
              /\ \E i \in 1..Len(trace) :
                    /\ trace[i] = Call("open", <<GOLDHEN_CONFIG_PATH, O_WRONLY_CREAT>>, "ok")
                    /\ i < Len(trace)
                    /\ trace[i + 1].op = "write"
              /\ StartsWith(files[GOLDHEN_CONFIG_PATH].data, createOptimalConfig)

\* called with the flag set in both stores and the runtime marked as loaded
C15_Witness ==
    /\ Returned({"force"})
    /\ ~ret.skipped
    /\ FlagHeld(hist.prior[1]) /\ FlagHeld(hist.prior[2])
    /\ hist.prior[1][EXPLOIT] = "yes"
    /\ SetArgs = CanonicalSets

\* the descriptors opened since the entry point was called
OpenedSinceEntry == (hist.snap.nh + 1)..Len(handles)

\* C16: debugGoldHENIssues changes nothing: both stores, the files and the
\* loaded units are as at its call, whether the probe's open succeeds or not;
\* it issues nothing but an open and a close, the one descriptor it opens is
\* read-only and is closed when it returns.
C16_DebugIsReadOnly ==
    ret.fn = "debug" =>
        /\ ls = hist.snap.ls /\ ss = hist.snap.ss
        /\ files = hist.snap.files
        /\ loaded = hist.snap.loaded
        /\ \A i \in 1..Len(trace) : trace[i].op \in {"open", "close"}
        /\ Cardinality(OpenedSinceEntry) <= 1
        /\ \A fd \in OpenedSinceEntry :
              /\ handles[fd].flags = O_RDONLY
              /\ pc = "idle" => (~handles[fd].open /\ handles[fd].closes = 1)

\* the probe found the file, with the flag set and the runtime loaded
C16_Witness ==
    /\ Returned({"debug"})
    /\ FlagHeld(ls) /\ ls[EXPLOIT] = "yes"
    /\ OpenedSinceEntry # {}
    /\ \A fd \in OpenedSinceEntry : ~handles[fd].open
    /\ files[GOLDHEN_CONFIG_PATH].exists

\* the probe did not find the file
C16_WitnessNotAccessible ==
    /\ Returned({"debug"})
    /\ OpenedSinceEntry = {}
    /\ ~files[GOLDHEN_CONFIG_PATH].exists

IsConfigOpen(e) == e.op = "open" /\ e.arg = <<GOLDHEN_CONFIG_PATH, O_RDWR_CREAT>>

\* the setting steps whose open of the configuration file failed
FailedOpens == {i \in 1..Len(trace) : IsConfigOpen(trace[i]) /\ trace[i].res # "ok"}

\* the whole sequence was gone through: four setting steps, an attempt for
\* each unit of the unload set, the manifest opened for the reload
SequenceCompleted ==
    /\ SetArgs = CanonicalSets
    /\ \A n \in 1..Len(plugins_to_unload) :
          \E m \in 1..Len(trace) :
              trace[m].op = "dynlib_get_list" /\ trace[m].arg = plugins_to_unload[n]
    /\ \E m \in 1..Len(trace) :
          trace[m].op = "open" /\ trace[m].arg = <<PLUGINS_INI_PATH, O_RDONLY>>

\* C17: when the open of the configuration file fails, modifyGoldHENSetting
\* issues no other call and returns false with the file as it was, after which
\* the sequencer goes on with the 50 ms delay and every remaining step.
C17_FailedOpenIsNotFatal ==
    /\ \A i \in FailedOpens :
          /\ trace[i - 1].op = "set"
          /\ i < Len(trace) => Is50(trace[i + 1])
          /\ i = Len(trace) =>
                /\ pc = "R_sleep50"
                /\ loc.modRet = FALSE
                /\ files[GOLDHEN_CONFIG_PATH] = hist.atSet.file
                /\ Len(handles) = hist.atSet.nh
    /\ (FailedOpens # {} /\ pc \in {"O_open", "O_write", "O_close", "A_verify", "idle"})
          => SequenceCompleted

\* the open of the first setting step raised or returned the sentinel, and
\* the sequence has been gone through to its end
C17_Witness ==
    /\ pc = "O_open"
    /\ \E i \in FailedOpens : SetsBefore(i) = 1
    /\ SequenceCompleted
    /\ files[GOLDHEN_CONFIG_PATH].exists

Finds == {i \in 1..Len(trace) : trace[i].op = "dynlib_get_list"}
Unloads == {i \in 1..Len(trace) : trace[i].op = "dynlib_unload_prx"}

\* the run has returned without having been skipped
RanToEnd == Returned({"auto", "force"}) /\ ~ret.skipped

\* the run is past unloadPlugins
PastUnload ==
    \/ pc \in {"F_sleep1", "L_open", "L_read", "L_close", "L_load", "F_sleep2",
                "O_open", "O_write", "O_close", "A_verify"}
    \/ RanToEnd

\* the run is past the open of the manifest
PastManifestOpen ==
    \/ pc \in {"L_read", "L_close", "L_load", "F_sleep2",
                "O_open", "O_write", "O_close", "A_verify"}
    \/ RanToEnd

ManifestOpened ==
    \E m \in 1..Len(trace) :
        trace[m].op = "open" /\ trace[m].arg = <<PLUGINS_INI_PATH, O_RDONLY>>

\* C18: the finds are attempted for the names of the unload set in order,
\* one each; an unload is issued only for the unit the find just before it
\* returned as loaded; whatever fails for a name, the following names are
\* attempted and the reload from the manifest is begun.
C18_UnloadIsBestEffort ==
    LET finds == Finds
        n == Cardinality(finds)
    IN
    /\ n <= Len(plugins_to_unload)
    /\ \A k \in 1..n : trace[Nth(finds, k)].arg = plugins_to_unload[k]
    /\ \A i \in Unloads :
          /\ trace[i - 1].op = "dynlib_get_list"
          /\ trace[i - 1].res = "ok"
          /\ trace[i - 1].arg = trace[i].arg
    /\ pc = "U_find" => n = loc.uIdx - 1
    /\ pc = "U_unload" => n = loc.uIdx
    /\ PastUnload => n = Len(plugins_to_unload)
    /\ PastManifestOpen => ManifestOpened

\* the find or the unload of the first name failed, the other names were
\* attempted all the same and the reload was begun
C18_Witness ==
    /\ pc = "F_sleep2"
    /\ \E i \in Finds \cup Unloads :
          trace[i].arg = plugins_to_unload[1] /\ trace[i].res = "throw"
    /\ Cardinality(Finds) = Len(plugins_to_unload)
    /\ Unloads # {}
    /\ ManifestOpened

Loads == {i \in 1..Len(trace) : IsLoad(trace[i])}

\* the plugin paths of the manifest on the console
ManifestPaths == parsePluginsList(files[PLUGINS_INI_PATH].data)

IsManifest(e, op) ==
    e.op = op /\ e.arg \in {<<PLUGINS_INI_PATH, O_RDONLY>>, <<PLUGINS_INI_PATH>>}

\* loadPlugins opened the manifest, read it and got past the close
ManifestObtained ==
    \E i \in 1..(Len(trace) - 2) :
        /\ IsManifest(trace[i], "open") /\ trace[i].res = "ok"
        /\ IsManifest(trace[i + 1], "read") /\ trace[i + 1].res = "ok"
        /\ IsManifest(trace[i + 2], "close") /\ trace[i + 2].res # "throw"

\* the run is past loadPlugins
PastReload ==
    \/ pc \in {"F_sleep2", "O_open", "O_write", "O_close", "A_verify"}
    \/ RanToEnd

C19_WitnessEmpty ==
    /\ pc = "O_open"
    /\ files[PLUGINS_INI_PATH].exists
    /\ ManifestPaths = <<>>
    /\ ManifestOpened
    /\ Loads = {}

\* the manifest could not be opened: no load, and the sequence went on
C19_WitnessNotOpened ==
    /\ pc = "O_open"
    /\ ManifestPaths # <<>>
    /\ ManifestOpened /\ ~ManifestObtained
    /\ Loads = {}

\* C20: after resetPluginsFixFlag() the fix flag is held by neither store and
\* the runtime-loaded flag ExploitLoaded is cleared too: none of the three
\* signals of the verification is set.
C20_ResetClearsAllSignals ==
    Returned({"reset"}) =>
        /\ ls[FIX] = NULL /\ ss[FIX] = NULL
        /\ ls[EXPLOIT] = NULL /\ ss[EXPLOIT] = NULL
        /\ \A i \in 1..3 : ~Signals[i]

\* the part of it that the code does: the fix flag is removed from both stores
C20_ResetClearsFixFlag ==
    Returned({"reset"}) => (ls[FIX] = NULL /\ ss[FIX] = NULL)

\* the run has returned after a successful open and write of
\* optimizeGoldHENConfig
CanonicalWritten ==
    /\ RanToEnd
    /\ \E i \in 1..(Len(trace) - 1) :
          /\ trace[i] = Call("open", <<GOLDHEN_CONFIG_PATH, O_WRONLY_CREAT>>, "ok")
          /\ trace[i + 1] = Call("write", <<GOLDHEN_CONFIG_PATH>>, "ok")

\* C21: after a run that was not skipped and whose canonical open and write
\* succeeded, the configuration file holds exactly the document of
\* createOptimalConfig, with nothing left of the content it had before.
C21_CanonicalWriteIsWholeFile ==
    CanonicalWritten => files[GOLDHEN_CONFIG_PATH].data = createOptimalConfig

\* what does hold: the file begins with the canonical document
C21_CanonicalWriteIsPrefix ==
    CanonicalWritten =>
        /\ Len(files[GOLDHEN_CONFIG_PATH].data) >= Len(createOptimalConfig)
        /\ SubSeq(files[GOLDHEN_CONFIG_PATH].data, 1, Len(createOptimalConfig))
              = createOptimalConfig

OptionalKeys == {REST_MODE, APP_BROWSER, DEBUG_LOG}

PreferredValue(key) == IF key = DEBUG_LOG THEN "0" ELSE "1"

\* the values the lines of the document give to key
ValuesOf(text, key) ==
    {text[i + 2] : i \in {j \in 1..(Len(text) - 2) : text[j] = key /\ text[j + 1] = "="}}

\* the keys the recommendations name
Recommended(recs) == {recs[i].setting : i \in 1..Len(recs)}

\* C22: a recommendation {key, preferred value, reason} is emitted for each
\* optional key about which the document is silent or with whose preferred
\* value it disagrees, and none for a key it sets to the preferred value.
C22_RecommendsWhenSilentOrDisagreeing ==
    ud.done =>
        \A key \in OptionalKeys :
            /\ PreferredValue(key) \notin ValuesOf(ud.d, key) =>
                  \E i \in 1..Len(ud.recs) :
                      /\ ud.recs[i].setting = key
                      /\ ud.recs[i].value = PreferredValue(key)
            /\ ValuesOf(ud.d, key) = {PreferredValue(key)} =>
                  key \notin Recommended(ud.recs)

\* C22, as amended: the two patches are recommended, with their preferred
\* value, exactly when the text nowhere shows them set to 1; the debug log is
\* recommended off exactly when the text shows it set to 1, and not for a
\* document silent about it.
C22_RecommendsByShownValue ==
    ud.done =>
        /\ REST_MODE \in Recommended(ud.recs) <=> ~Shows(ud.d, REST_MODE, "1")
        /\ APP_BROWSER \in Recommended(ud.recs) <=> ~Shows(ud.d, APP_BROWSER, "1")
        /\ DEBUG_LOG \in Recommended(ud.recs) <=> Shows(ud.d, DEBUG_LOG, "1")
        /\ \A i \in 1..Len(ud.recs) :
              ud.recs[i].value = PreferredValue(ud.recs[i].setting)

\* a document silent about the rest mode patch and about the debug log: the
\* patch is recommended, the debug log is not
C22_Witness ==
    /\ ud.done
    /\ ValuesOf(ud.d, REST_MODE) = {}
    /\ ValuesOf(ud.d, DEBUG_LOG) = {}
    /\ REST_MODE \in Recommended(ud.recs)
    /\ DEBUG_LOG \notin Recommended(ud.recs)

\* a run that was not skipped has returned and nothing but the run wrote to
\* the stores meanwhile
RanAlone == RanToEnd /\ ~hist.outside

\* C23: a run does not arm the gate by itself. A run that starts with
\* shouldApplyPluginsFix() true, forceReapplyFix included, and during which
\* nothing else writes to the stores, never calls markPluginsFixApplied(),
\* leaves the fix flag of both stores as it was, unset, returns success
\* false, and shouldApplyPluginsFix() is still true after it.
C23_RunNeverArmsGate ==
    RanAlone =>
        /\ hist.marks = 0
        /\ ls[FIX] = hist.snap.ls[FIX] /\ ss[FIX] = hist.snap.ss[FIX]
        /\ ~FlagHeld(ls) /\ ~FlagHeld(ss)
        /\ ~ret.success
        /\ ~ret.marked
        /\ shouldApplyPluginsFix(ls, ss)

\* a run that found the runtime loaded, ran the whole sequence and still
\* returned without success
C23_Witness ==
    /\ RanAlone
    /\ ret.fn = "auto"
    /\ ls[EXPLOIT] = "yes"
    /\ SequenceCompleted
    /\ ~ret.success

\* a forced run that returned without success
C23_WitnessForced ==
    /\ RanAlone
    /\ ret.fn = "force"
    /\ SequenceCompleted
    /\ ~ret.success

\* the recommended keys for which the document has no `key=` at all
MissingKeys == {key \in Recommended(ud.recs) : MatchStarts(ud.d, key) = {}}

\* the first line of text that is the [Settings] header, 0 when there is none
HeaderLine(text) ==
    LET lines == Split(text)
        hs == {i \in 1..Len(lines) : lines[i] = <<"[Settings]">>}
    IN  IF hs = {} THEN 0 ELSE Min(hs)

\* every missing key has its line in the block right under the header
InsertedUnderHeader ==
    LET lines == Split(ud.applied)
        h == HeaderLine(ud.applied)
    IN  /\ h > 0
        /\ \A key \in MissingKeys :
              \E i \in (h + 1)..(h + Cardinality(MissingKeys)) :
                  /\ i <= Len(lines)
                  /\ lines[i] = <<key, "=", PreferredValue(key)>>

\* C24: applying the recommendations of a document gives a document that
\* has no recommendation left; applying no recommendation gives the document
\* back; a missing key is inserted under the [Settings] header, which is put
\* at the top of the document when it has none.
C24_RecommendationFixpoint ==
    ud.done =>
        /\ ud.again = <<>>
        /\ ud.same = ud.d
        /\ MissingKeys # {} =>
              /\ InsertedUnderHeader
              /\ HeaderLine(ud.d) = 0 => HeaderLine(ud.applied) = 1

\* no line of the document holds an assignment after another one
OneAssignmentPerLine(text) ==
    \A i \in 1..Len(text), j \in 1..Len(text) :
        (i < j /\ text[i] = "=" /\ text[j] = "=") =>
            \E m \in (i + 1)..(j - 1) : text[m] \in LineTerminators

\* what does hold: the claim for the documents with one assignment to a line
C24_FixpointOnPlainDocuments ==
    (ud.done /\ OneAssignmentPerLine(ud.d)) =>
        /\ ud.again = <<>>
        /\ ud.same = ud.d
        /\ MissingKeys # {} =>
              /\ InsertedUnderHeader
              /\ HeaderLine(ud.d) = 0 => HeaderLine(ud.applied) = 1

\* what does hold of every document: no recommendation applied changes
\* nothing, and the missing keys are inserted under the header
C24_InsertionAndIdentity ==
    ud.done =>
        /\ ud.same = ud.d
        /\ MissingKeys # {} =>
              /\ InsertedUnderHeader
              /\ HeaderLine(ud.d) = 0 => HeaderLine(ud.applied) = 1

====
